---- MODULE Spec2Model ----
(***************************************************************************)
(* Model of the Nav2 driver: the turtle-protocol client (Nav2Remote), the  *)
(* odometry integrator (BaseOdometry over Pose2D) and the reconnecting     *)
(* driver (Nav2Driver), all of src/nav2_driver/src/nav2remote.cpp.         *)
(*                                                                         *)
(* The specifications of the module:                                       *)
(*   Spec       the driver: constructor, connect, publishOdometry,         *)
(*              setVelocity, with the client's calls as outcomes           *)
(*   SpecRead   Nav2Remote::readLine, one byte per step                    *)
(*   SpecWait   Nav2Remote::wait over getQueueSize                         *)
(*   SpecDelta  two samples fed to a fresh BaseOdometry                    *)
(*   SpecClient Nav2Remote's commands and queries, one call at a time      *)
(*   SpecCtor   Nav2Remote::Nav2Remote, one address per step               *)
(*   SpecLong   readLine on lines longer than one increment of the buffer  *)
(*   SpecLoop   the retry loop of a callback over runs without end         *)
(*   SpecWire   the two callbacks under ros::spin and the bytes they move  *)
(* Lengths are integers; angles are integers in units of pi/4 radians, so  *)
(* that pi and 2*pi are exact.  A velocity is kept as the pair (delta,     *)
(* elapsed) it is the quotient of.                                         *)
(***************************************************************************)
EXTENDS Integers, Sequences, FiniteSets, TLC

VARIABLES
    \* ---- Nav2Driver
    pc,          \* where the driver's single thread is
    caller,      \* which routine called connect: "ctor", "po" or "sv"
    remote_,     \* the installed client (NoClient for a null pointer)
    base_odom_,  \* BaseOdometry: pose_, vel_, prev_, offset_, last_time_
    data,        \* publishOdometry's local Pose2D
    retry,       \* connect's loop counter
    rc,          \* return value of the last client call
    odom_pub_,   \* pose of the last odometry message published
    now,         \* ros::Time::now(), in units of 0.1 s
    \* ---- the clients built so far and their streams
    nextId,      \* identity of the next client to be built
    open,        \* clients whose stream is open
    errored,     \* clients that have reported an I/O error
    \* ---- history of the run
    calls,       \* callbacks dispatched so far
    attempts,    \* clients constructed in the current connect round
    preReset,    \* <<published pose>> when connect last reset the odometry
    sinceReset,  \* samples integrated by the current BaseOdometry
    lastSample,  \* the sample last passed to updateWithAbsolute
    ended,       \* how the last callback ended
    pubs,        \* odometry messages published by the current tick
    dataFrom,    \* the client whose successful query filled data
    \* ---- Nav2Remote::readLine
    rl_pc,       \* "idle", "loop" (inside readLine) or "ret" (it returned)
    line,        \* the line buffer, indexed from 0
    lineLen,     \* its capacity
    pos,         \* readLine's loop variable, as it stands before the ++pos
    rl_ret,      \* readLine's return value
    raw,         \* the bytes read() delivered during the current call
    stored,      \* the index read() last stored a byte at
    reads,       \* calls of read() made so far
    \* ---- Nav2Remote::wait
    w_pc,        \* "idle", "poll", "sleep" or "done"
    w_ret,       \* wait's return value
    polls,       \* the outcomes of the getQueueSize calls of this wait
    sleeps,      \* the usleep calls of this wait, by duration
    w_io,        \* a poll of this wait met an I/O error
    \* ---- the build
    absTruncates,  \* abs(double) resolves to int abs(int), truncating
    \* ---- two samples fed to a fresh BaseOdometry
    d_odom,      \* the BaseOdometry
    d_fed,       \* the samples passed to updateWithAbsolute so far
    \* ---- one command or query of Nav2Remote at a time
    c_pc,        \* "idle", "reading" (inside the query's readLine), "done"
    c_op,        \* the operation called and its arguments
    c_writes,    \* the write() calls the operation made: buffer, count, result
    c_rlcalls,   \* the readLine() calls the operation made
    c_ret,       \* what the operation returned
    c_out,       \* the caller's x, y, orientation passed by reference
    c_prior,     \* their values when the operation was called
    c_resp,      \* the fields sscanf converted from the line
    \* ---- one construction of a Nav2Remote
    k_pc,        \* "new", "loop", "connected", "thrown"
    k_cands,     \* what each address of getaddrinfo's list will do
    k_rp,        \* rp, as a position of the list; past its end it is NULL
    fd,          \* the member fd
    k_open,      \* the descriptors socket() returned and nobody closed
    k_tried,     \* the positions socket() was called for, in order
    k_error,     \* the exception thrown
    \* ---- the retry loop of a callback, with the device's mood as input
    l_pc,        \* "connect", "attempt", "idle", "po_cond", "sv_cond", "fatal"
    l_caller,    \* which routine called connect: "ctor", "po" or "sv"
    l_env,       \* what the device does during the current callback
    l_remote,    \* remote_: NoClient or the client installed
    l_retry,     \* connect's loop counter
    l_attempts,  \* clients constructed in the current connect round
    l_cycles,    \* connect rounds of the current callback, counted to MaxCycles
    l_rc,        \* return value of the last client call
    \* ---- the two callbacks and the bytes of the connection
    t_main,      \* main: "ctor", "spin" or "fatal"
    t_po,        \* publishOdometry: "idle", "cond", "read", "update", "connect"
    t_sv,        \* setVelocity: "idle", "cond", "connect"
    t_remote,    \* remote_: NoClient or the connection of the client
    t_next,      \* the connection the next client will open
    t_log        \* what was written to and read from the connection, in order

drvVars == <<pc, caller, remote_, base_odom_, data, retry, rc, odom_pub_, now,
             nextId, open, errored, calls, attempts, preReset, sinceReset,
             lastSample, ended, pubs, dataFrom>>
rlVars == <<rl_pc, line, lineLen, pos, rl_ret, raw, stored, reads>>
wVars == <<w_pc, w_ret, polls, sleeps, w_io>>
dVars == <<d_odom, d_fed>>
cVars == <<c_pc, c_op, c_writes, c_rlcalls, c_ret, c_out, c_prior, c_resp>>
kVars == <<k_pc, k_cands, k_rp, fd, k_open, k_tried, k_error>>
lVars == <<l_pc, l_caller, l_env, l_remote, l_retry, l_attempts, l_cycles,
           l_rc>>
tVars == <<t_main, t_po, t_sv, t_remote, t_next, t_log>>
vars == <<drvVars, rlVars, wVars, absTruncates, dVars, cVars, kVars, lVars,
          tVars>>

\* what the actions of each part leave alone
notDrv == <<rlVars, wVars, absTruncates, dVars, cVars, kVars, lVars, tVars>>
notRl == <<drvVars, wVars, absTruncates, dVars, cVars, kVars, lVars, tVars>>
notW == <<drvVars, rlVars, absTruncates, dVars, cVars, kVars, lVars, tVars>>
notD == <<drvVars, rlVars, wVars, absTruncates, cVars, kVars, lVars, tVars>>
notC == <<drvVars, wVars, absTruncates, dVars, kVars, lVars, tVars>>
notK == <<drvVars, rlVars, wVars, absTruncates, dVars, cVars, lVars, tVars>>
notT == <<drvVars, rlVars, wVars, absTruncates, dVars, cVars, kVars, lVars>>
notL == <<drvVars, rlVars, wVars, absTruncates, dVars, cVars, kVars, tVars>>

----------------------------------------------------------------------------
\* Bounds of the model

MaxCalls == 3      \* callbacks (timer ticks and velocity commands) dispatched
MaxClients == 3    \* clients constructed successfully in a run
MaxReads == 6      \* calls of read() made on one client's stream
MaxPolls == 4      \* getQueueSize polls made by one call of wait
MaxDepth == 3      \* largest queue depth the device reports

----------------------------------------------------------------------------
\* Pose2D

Pi == 4
TwoPi == 2 * Pi

Pose(px, py, pth) == [x |-> px, y |-> py, th |-> pth]
Zero == Pose(0, 0, 0)

Abs(n) == IF n < 0 THEN -n ELSE n

\* pi as a fraction, to turn an angle of the model into whole radians
PiNum == 355
PiDen == 113

\* (int) of an angle in radians: the conversion of the argument when
\* abs(double) resolves to int abs(int)
TruncRadians(a) ==
    LET m == (Abs(a) * PiNum) \div (PiDen * Pi)
    IN IF a < 0 THEN -m ELSE m

\* abs(th - other.th) > M_PI.  The call is unqualified: it is the double
\* overload where the headers put one in the global namespace, and
\* otherwise int abs(int) on the truncated difference.
ExceedsPi(a) ==
    IF absTruncates
    THEN Abs(TruncRadians(a)) * PiDen > PiNum
    ELSE Abs(a) > Pi

\* operator+= / operator+ : the left operand after the call
PosePlus(a, b) == Pose(a.x + b.x, a.y + b.y, a.th + b.th)

\* operator-= / operator- : the left operand after the call.  operator- is
\* "return *this -= other", so it changes its left operand and returns it.
PoseMinus(a, b) ==
    LET th1 == IF ExceedsPi(a.th - b.th)
               THEN (IF b.th > 0 THEN a.th + TwoPi ELSE a.th - TwoPi)
               ELSE a.th
    IN Pose(a.x - b.x, a.y - b.y, th1 - b.th)

\* operator/= / operator/ : the quotient, kept as (numerators, denominator)
PoseOver(a, d) == [d |-> a, dt |-> d]

\* the poses the device reports in the driver's runs
Samples == {Pose(0, 0, 0), Pose(1, 0, 3), Pose(0, 2, -3), Pose(1, 2, 0)}

----------------------------------------------------------------------------
\* BaseOdometry

\* BaseOdometry() and BaseOdometry(Pose2D offset)
BaseOdometry_StaleTime(offset, t) ==
    [pose_ |-> Zero, vel_ |-> PoseOver(Zero, 1), prev_ |-> Zero,
     offset_ |-> offset, last_time_ |-> 0]

BaseOdometry(offset, t) ==
    [pose_ |-> Zero, vel_ |-> PoseOver(Zero, 1), prev_ |-> Zero,
     offset_ |-> offset, last_time_ |-> t]

updateWithRelative(o, delta, t) ==
    LET elapsed == t - o.last_time_
    IN [o EXCEPT !.last_time_ = t,
                 !.pose_ = PosePlus(o.pose_, delta),
                 !.vel_ = PoseOver(delta, elapsed)]

\* abs - prev_ leaves the difference in the by-value parameter abs, and that
\* is the object assigned to prev_ afterwards.
updateWithAbsolute(o, abs, t) ==
    LET absAfter == PoseMinus(abs, o.prev_)
    IN [updateWithRelative(o, absAfter, t) EXCEPT !.prev_ = absAfter]

getPose(o) == o.pose_

getMessage_NoOffset(o) == o.pose_

\* the pose of getMessage (and of getTransform)
getMessage(o) == PosePlus(o.pose_, o.offset_)

----------------------------------------------------------------------------
\* Nav2Remote::Nav2Remote, its address list and its descriptors

MaxCands == 3

\* an address of the list: socket() fails, connect() fails, or it connects
CandOutcomes == {"nosocket", "refused", "connects"}

RECURSIVE ListsUpTo(_)
ListsUpTo(n) ==
    IF n = 0 THEN {<<>>}
    ELSE LET shorter == ListsUpTo(n - 1)
         IN shorter \cup
            {Append(l, o) : l \in {t \in shorter : Len(t) = n - 1},
                            o \in CandOutcomes}

\* getaddrinfo succeeds with at least one address
CandLists == ListsUpTo(MaxCands) \ {<<>>}

MinPort == 1
MaxPort == 65535
Ports == {0, 5010, MaxPort + 1}

Closed_Leak(fds, d) == fds

\* close(fd)
Closed(fds, d) == fds \ {d}

\* the address lists on which the constructor throws: none connects
FailingLists == {l \in CandLists : \A i \in 1..Len(l) : l[i] # "connects"}

\* the descriptors open when the constructor has thrown on the list l: a
\* refused address had a descriptor, numbered below zero here, and
\* close(fd) was called on it; an address without a socket had none
RECURSIVE FailedCtor(_, _)
FailedCtor(l, fds) ==
    IF l = <<>> THEN fds
    ELSE LET d == 0 - Len(l)
         IN FailedCtor(Tail(l),
                       IF Head(l) = "refused"
                       THEN Closed(fds \cup {d}, d)
                       ELSE fds)

----------------------------------------------------------------------------
\* Nav2Driver

NoClient == 0
RetryBudget == 5
TimerPeriod == 1
RetrySleep == 2
IOError == -1

MoreAttempts_OneMore(r) == r <= RetryBudget

\* the retry loop's condition of connect
MoreAttempts(r) == r < RetryBudget

WhileCond_OnZero(r, ret) == r = NoClient \/ ret <= 0
WhileCond_NoResult(r, ret) == r = NoClient

\* the condition of the while loops of publishOdometry and setVelocity
WhileCond(r, ret) == r = NoClient \/ ret < 0

\* where connect returns to
ReturnTo(c) == CASE c = "ctor" -> "idle"
                 [] c = "po" -> "po_cond"
                 [] c = "sv" -> "sv_cond"

ResetStreams_NoClose(o, r) == o

\* the streams open after remote_.reset()
ResetStreams(o, r) == o \ {r}

\* the offset connect hands to the new BaseOdometry
ResetOffset(o) == getPose(o)

DrvInit ==
    /\ pc = "ctor"
    /\ caller = "ctor"
    /\ remote_ = NoClient
    /\ base_odom_ = BaseOdometry(Zero, 0)
    /\ data = Zero
    /\ retry = 0
    /\ rc = 0
    /\ odom_pub_ = Zero
    /\ now = 0
    /\ nextId = 1
    /\ open = {}
    /\ errored = {}
    /\ calls = 0
    /\ attempts = 0
    /\ preReset = <<>>
    /\ sinceReset = 0
    /\ lastSample = Zero
    /\ ended = "none"
    /\ pubs = 0
    /\ dataFrom = NoClient

\* Nav2Driver::Nav2Driver calls connect
Construct ==
    /\ UNCHANGED notDrv
    /\ UNCHANGED <<pubs, dataFrom>>
    /\ pc = "ctor"
    /\ pc' = "connect"
    /\ caller' = "ctor"
    /\ UNCHANGED <<remote_, base_odom_, data, retry, rc, odom_pub_, now,
                   nextId, open, errored, calls, attempts, preReset,
                   sinceReset, lastSample, ended>>

\* connect, up to its retry loop: an installed client is destroyed and the
\* odometry replaced by a fresh one that carries an offset
ConnectBegin ==
    /\ UNCHANGED notDrv
    /\ UNCHANGED <<pubs, dataFrom>>
    /\ pc = "connect"
    /\ IF remote_ # NoClient
       THEN /\ remote_' = NoClient
            /\ open' = ResetStreams(open, remote_)
            /\ base_odom_' = BaseOdometry(ResetOffset(base_odom_), now)
            /\ preReset' = <<getMessage(base_odom_)>>
            /\ sinceReset' = 0
       ELSE UNCHANGED <<remote_, open, base_odom_, preReset, sinceReset>>
    /\ retry' = 0
    /\ attempts' = 0
    /\ pc' = "attempt"
    /\ UNCHANGED <<caller, data, rc, odom_pub_, now, nextId, errored, calls,
                   lastSample, ended>>

\* one turn of the retry loop whose Nav2Remote constructor succeeds
AttemptOk ==
    /\ UNCHANGED notDrv
    /\ UNCHANGED <<pubs, dataFrom>>
    /\ pc = "attempt"
    /\ MoreAttempts(retry)
    /\ nextId <= MaxClients
    /\ remote_' = nextId
    /\ open' = (open \ {remote_}) \cup {nextId}
    /\ nextId' = nextId + 1
    /\ attempts' = attempts + 1
    /\ pc' = ReturnTo(caller)
    /\ UNCHANGED <<caller, base_odom_, data, retry, rc, odom_pub_, now,
                   errored, calls, preReset, sinceReset, lastSample, ended>>

\* one turn of the retry loop whose Nav2Remote constructor throws
AttemptFail ==
    /\ UNCHANGED notDrv
    /\ UNCHANGED <<pubs, dataFrom>>
    /\ pc = "attempt"
    /\ MoreAttempts(retry)
    /\ retry' = retry + 1
    /\ attempts' = attempts + 1
    /\ now' = now + RetrySleep
    /\ \E l \in FailingLists : open' = FailedCtor(l, open)
    /\ UNCHANGED <<pc, caller, remote_, base_odom_, data, rc, odom_pub_,
                   nextId, errored, calls, preReset, sinceReset,
                   lastSample, ended>>

\* the retry loop is over: connect throws and the process ends
ConnectThrow ==
    /\ UNCHANGED notDrv
    /\ UNCHANGED <<pubs, dataFrom>>
    /\ pc = "attempt"
    /\ ~MoreAttempts(retry)
    /\ pc' = "fatal"
    /\ ended' = "fatal"
    /\ UNCHANGED <<caller, remote_, base_odom_, data, retry, rc, odom_pub_,
                   now, nextId, open, errored, calls, attempts, preReset,
                   sinceReset, lastSample>>

\* the timer fires: publishOdometry starts
Tick ==
    /\ UNCHANGED notDrv
    /\ pubs' = 0
    /\ dataFrom' = NoClient
    /\ pc = "idle"
    /\ calls < MaxCalls
    /\ calls' = calls + 1
    /\ now' = now + TimerPeriod
    /\ data' = Zero
    /\ pc' = "po_cond"
    /\ ended' = "none"
    /\ UNCHANGED <<caller, remote_, base_odom_, retry, rc, odom_pub_, nextId,
                   open, errored, attempts, preReset, sinceReset, lastSample>>

\* a velocity command arrives: setVelocity starts
Command ==
    /\ UNCHANGED notDrv
    /\ UNCHANGED <<pubs, dataFrom>>
    /\ pc = "idle"
    /\ calls < MaxCalls
    /\ calls' = calls + 1
    /\ pc' = "sv_cond"
    /\ ended' = "none"
    /\ UNCHANGED <<caller, remote_, base_odom_, data, retry, rc, odom_pub_,
                   now, nextId, open, errored, attempts, preReset,
                   sinceReset, lastSample>>

\* the outcomes of estimatePosition on a client: success with a sample, or
\* the I/O error, which leaves the outputs alone
EstimateOutcomes(d) ==
    {[ret |-> 0, out |-> s] : s \in Samples} \cup {[ret |-> IOError, out |-> d]}

\* one evaluation of publishOdometry's loop condition, and what follows it
PoCond ==
    /\ UNCHANGED notDrv
    /\ UNCHANGED pubs
    /\ pc = "po_cond"
    /\ \E o \in IF remote_ = NoClient THEN {[ret |-> rc, out |-> data]}
                ELSE EstimateOutcomes(data) :
          /\ rc' = o.ret
          /\ data' = o.out
          /\ dataFrom' = IF remote_ # NoClient /\ o.ret = 0
                         THEN remote_ ELSE dataFrom
          /\ errored' = IF remote_ # NoClient /\ o.ret < 0
                        THEN errored \cup {remote_} ELSE errored
          /\ IF WhileCond(remote_, o.ret)
             THEN pc' = "connect" /\ caller' = "po"
             ELSE pc' = "po_update" /\ caller' = caller
    /\ UNCHANGED <<remote_, base_odom_, retry, odom_pub_, now, nextId, open,
                   calls, attempts, preReset, sinceReset, lastSample, ended>>

\* the rest of publishOdometry: integrate the sample and publish
PoUpdate ==
    /\ UNCHANGED notDrv
    /\ pubs' = pubs + 1
    /\ UNCHANGED dataFrom
    /\ pc = "po_update"
    /\ base_odom_' = updateWithAbsolute(base_odom_, data, now)
    /\ odom_pub_' = getMessage(base_odom_')
    /\ lastSample' = data
    /\ sinceReset' = sinceReset + 1
    /\ pc' = "idle"
    /\ ended' = "ok"
    /\ UNCHANGED <<caller, remote_, data, retry, rc, now, nextId, open,
                   errored, calls, attempts, preReset>>

\* the outcomes of setRelativeVelocity: the whole line written, or not
WriteOutcomes == {0, IOError}

\* one evaluation of setVelocity's loop condition, and what follows it
SvCond ==
    /\ UNCHANGED notDrv
    /\ UNCHANGED <<pubs, dataFrom>>
    /\ pc = "sv_cond"
    /\ \E r \in IF remote_ = NoClient THEN {rc} ELSE WriteOutcomes :
          /\ rc' = r
          /\ errored' = IF remote_ # NoClient /\ r < 0
                        THEN errored \cup {remote_} ELSE errored
          /\ IF WhileCond(remote_, r)
             THEN pc' = "connect" /\ caller' = "sv" /\ ended' = ended
             ELSE pc' = "idle" /\ caller' = caller /\ ended' = "ok"
    /\ UNCHANGED <<remote_, base_odom_, data, retry, odom_pub_, now, nextId,
                   open, calls, attempts, preReset, sinceReset, lastSample>>

\* a client as constructed (line(NULL), lineLen(0)), no call made yet
RlIdle ==
    /\ rl_pc = "idle" /\ line = <<>> /\ lineLen = 0 /\ pos = 0 /\ rl_ret = 0
    /\ raw = <<>> /\ stored = -1 /\ reads = 0

\* no call of wait made yet
WIdle ==
    /\ w_pc = "idle" /\ w_ret = 0 /\ polls = <<>> /\ sleeps = <<>>
    /\ w_io = FALSE

\* the compiler and headers decide what abs(double) is
BuildInit == absTruncates \in BOOLEAN

\* no sample fed yet
DIdle == d_odom = BaseOdometry(Zero, 0) /\ d_fed = <<>>

NoOutputs == [x |-> 0, y |-> 0, orientation |-> 0]

\* no operation of the client called yet
CIdle ==
    /\ c_pc = "idle"
    /\ c_op = [name |-> "none", args |-> <<>>]
    /\ c_writes = <<>>
    /\ c_rlcalls = 0
    /\ c_ret = 0
    /\ c_out = NoOutputs
    /\ c_prior = NoOutputs
    /\ c_resp = <<>>

NoFd == -1

\* the member initialisers: fd(-1)
KIdle ==
    /\ k_pc = "new"
    /\ k_cands = <<>>
    /\ k_rp = 0
    /\ fd = NoFd
    /\ k_open = {}
    /\ k_tried = <<>>
    /\ k_error = "none"

\* the driver under construction, about to call connect
LIdle ==
    /\ l_pc = "connect"
    /\ l_caller = "ctor"
    /\ l_env = "any"
    /\ l_remote = NoClient
    /\ l_retry = 0
    /\ l_attempts = 0
    /\ l_cycles = 0
    /\ l_rc = 0

\* main has entered the constructor of Nav2Driver
TIdle ==
    /\ t_main = "ctor"
    /\ t_po = "idle"
    /\ t_sv = "idle"
    /\ t_remote = NoClient
    /\ t_next = 1
    /\ t_log = <<>>

Init ==
    /\ DrvInit /\ RlIdle /\ WIdle /\ BuildInit /\ DIdle /\ CIdle /\ KIdle
    /\ LIdle /\ TIdle

Next ==
    \/ Construct
    \/ ConnectBegin
    \/ AttemptOk
    \/ AttemptFail
    \/ ConnectThrow
    \/ Tick
    \/ Command
    \/ PoCond
    \/ PoUpdate
    \/ SvCond

Spec == Init /\ [][Next]_vars

----------------------------------------------------------------------------
\* Nav2Remote::readLine

CR == "CR"
LF == "LF"
NUL == "NUL"
Junk == "?"            \* a byte of the buffer that was never written
Bytes == {"a", "|", "+", CR, LF}

LineIncrement == 32

IsChatter_PipeOnly(c) == c = "|"

\* the test on line[0] that discards a line
IsChatter(c) == c = "|" \/ c = "+"

PosAfterCR_Kept(p) == p + 1

\* pos at the next read after "--pos; continue" and the loop's ++pos
PosAfterCR(p) == (p - 1) + 1

\* pos at the next read after "pos = -1; continue" and the loop's ++pos
PosAfterChatter == -1 + 1

\* the capacity check at the head of the loop body
Grown(buf, len, p) ==
    IF len <= p + 1
    THEN [i \in 0..(len + LineIncrement - 1) |->
             IF i < len THEN buf[i] ELSE Junk]
    ELSE buf

GrownLen_Late(len, p) == IF len <= p THEN len + LineIncrement ELSE len

GrownLen(len, p) == IF len <= p + 1 THEN len + LineIncrement ELSE len

\* entry of readLine: "for(int pos = 0;;"
EnterReadLine ==
    /\ rl_pc' = "loop"
    /\ pos' = 0
    /\ raw' = <<>>
    /\ UNCHANGED <<line, lineLen, rl_ret, stored, reads>>

\* one turn of the loop in which read() delivers the byte b
ReadByte(b) ==
    LET buf == [Grown(line, lineLen, pos) EXCEPT ![pos] = b]
        ended0 == [buf EXCEPT ![pos] = NUL]
    IN /\ lineLen' = GrownLen(lineLen, pos)
       /\ stored' = pos
       /\ raw' = Append(raw, b)
       /\ IF b = CR
          THEN /\ line' = buf
               /\ pos' = PosAfterCR(pos)
               /\ UNCHANGED <<rl_pc, rl_ret>>
          ELSE IF b = LF
          THEN /\ line' = ended0
               /\ IF IsChatter(ended0[0])
                  THEN /\ pos' = PosAfterChatter
                       /\ UNCHANGED <<rl_pc, rl_ret>>
                  ELSE /\ rl_ret' = pos
                       /\ rl_pc' = "ret"
                       /\ pos' = pos
          ELSE /\ line' = buf
               /\ pos' = pos + 1
               /\ UNCHANGED <<rl_pc, rl_ret>>
       /\ reads' = reads + 1

\* one turn of the loop in which read() returns 0 or -1
ReadFails ==
    /\ line' = Grown(line, lineLen, pos)
    /\ lineLen' = GrownLen(lineLen, pos)
    /\ rl_ret' = IOError
    /\ rl_pc' = "ret"
    /\ reads' = reads + 1
    /\ UNCHANGED <<pos, raw, stored>>

\* a query calls readLine
RlCall ==
    /\ rl_pc \in {"idle", "ret"}
    /\ reads < MaxReads
    /\ EnterReadLine
    /\ UNCHANGED notRl

RlRead ==
    /\ rl_pc = "loop"
    /\ reads < MaxReads
    /\ \E b \in Bytes : ReadByte(b)
    /\ UNCHANGED notRl

RlFail ==
    /\ rl_pc = "loop"
    /\ reads < MaxReads
    /\ ReadFails
    /\ UNCHANGED notRl

NextRead == RlCall \/ RlRead \/ RlFail

SpecRead == Init /\ [][NextRead]_vars

\* readLine on long lines.  The stream may deliver any byte, or fail, at
\* its first reads and at its last ones; in between it delivers ordinary
\* characters, so that a line outgrows the first increment of the buffer.
MaxLongReads == 35

FreeReads == {0, 1, 2, MaxLongReads - 2, MaxLongReads - 1}

StreamBytes(r) == IF r \in FreeReads THEN Bytes ELSE {"a"}

LongCall ==
    /\ rl_pc \in {"idle", "ret"}
    /\ reads < MaxLongReads
    /\ EnterReadLine
    /\ UNCHANGED notRl

LongRead ==
    /\ rl_pc = "loop"
    /\ reads < MaxLongReads
    /\ \E b \in StreamBytes(reads) : ReadByte(b)
    /\ UNCHANGED notRl

LongFail ==
    /\ rl_pc = "loop"
    /\ reads < MaxLongReads
    /\ reads \in FreeReads
    /\ ReadFails
    /\ UNCHANGED notRl

NextLong == LongCall \/ LongRead \/ LongFail

SpecLong == Init /\ [][NextLong]_vars

----------------------------------------------------------------------------
\* Nav2Remote::getQueueSize and Nav2Remote::wait

PollDelay == 100000

\* the values an int that was never assigned can hold
Indeterminate == (0 - MaxDepth)..MaxDepth

\* the outcomes of getQueueSize: the I/O error of the write or of readLine;
\* the fourth field of the response; or, when sscanf assigns no fourth
\* field, the value of the unassigned qlen
QueueOutcomes ==
    {[io |-> TRUE, parsed |-> FALSE, ret |-> IOError]}
    \cup {[io |-> FALSE, parsed |-> TRUE, ret |-> d] : d \in 0..MaxDepth}
    \cup {[io |-> FALSE, parsed |-> FALSE, ret |-> g] : g \in Indeterminate}

WaitReturns_AtOne(r) == r <= 1

\* the test that ends wait's loop
WaitReturns(r) == r < 1

WaitCall ==
    /\ w_pc = "idle"
    /\ w_pc' = "poll"
    /\ UNCHANGED <<w_ret, polls, sleeps, w_io>>
    /\ UNCHANGED notW

\* rc = getQueueSize(); if( rc < 1) return rc;
WaitPoll ==
    /\ w_pc = "poll"
    /\ Len(polls) < MaxPolls
    /\ \E o \in QueueOutcomes :
          /\ polls' = Append(polls, o)
          /\ w_io' = (w_io \/ o.io)
          /\ IF WaitReturns(o.ret)
             THEN w_ret' = o.ret /\ w_pc' = "done"
             ELSE w_ret' = w_ret /\ w_pc' = "sleep"
    /\ UNCHANGED sleeps
    /\ UNCHANGED notW

\* usleep(100000);
WaitSleep ==
    /\ w_pc = "sleep"
    /\ sleeps' = Append(sleeps, PollDelay)
    /\ w_pc' = "poll"
    /\ UNCHANGED <<w_ret, polls, w_io>>
    /\ UNCHANGED notW

NextWait == WaitCall \/ WaitPoll \/ WaitSleep

SpecWait == Init /\ [][NextWait]_vars

----------------------------------------------------------------------------
\* Nav2Remote's commands and queries
\*
\* Numbers are on the scale of the angles (pi is Pi), so a multiplication by
\* 180/M_PI or by M_PI/180 is the same operator whatever it is applied to.

\* "%lf" prints six decimals: a number of the wire is counted in millionths
Micro == 1000000

\* angle * (180.0 / M_PI)
ToDegrees(a) == (a * 180) \div Pi

\* orientation *= (M_PI / 180.0), to the whole unit
ToRadians(d) ==
    LET m == (Abs(d) * Pi) \div 180
    IN IF d < 0 THEN -m ELSE m

\* what "%lf" prints for v
Fmt(v) == v * Micro

Msg(verb, args) == [verb |-> verb, args |-> args]

RECURSIVE Digits(_)
Digits(n) == IF n < 10 THEN 1 ELSE 1 + Digits(n \div 10)

\* the characters of a "%lf": sign, integer part, point, six decimals
NumLen(m) == (IF m < 0 THEN 1 ELSE 0) + Digits(Abs(m) \div Micro) + 7

RECURSIVE ArgsLen(_)
ArgsLen(args) ==
    IF args = <<>> THEN 0
    ELSE 1 + NumLen(Head(args)) + ArgsLen(Tail(args))

VerbLen(v) ==
    CASE v \in {"o", "v", "p", "s", "q"} -> 1
      [] v \in {"av", "lt", "mv"} -> 2
      [] v \in {"sms", "sma", "qms", "qma"} -> 3
      [] v \in {"smce", "qmce"} -> 4

\* the value of sprintf: the characters of the line, newline included
MsgLen(m) == VerbLen(m.verb) + ArgsLen(m.args) + 1

LiteralLen_Four(v) == IF v \in {"s", "q"} THEN 2 ELSE 4

\* the counts written as literals in stop and in the queries
LiteralLen(v) ==
    CASE v \in {"s", "q"} -> 2
      [] v \in {"qms", "qma"} -> 4
      [] v = "qmce" -> 5

\* the lines the commands format
oLine(orientation) == Msg("o", <<Fmt(orientation)>>)
avLine(vx, vy) == Msg("av", <<Fmt(vx), Fmt(vy)>>)
vLine(vx, vy, turnRate) ==
    Msg("v", <<Fmt(vx), Fmt(vy), Fmt(ToDegrees(turnRate))>>)
pLine(x, y, orientation) ==
    Msg("p", <<Fmt(x), Fmt(y), Fmt(ToDegrees(orientation))>>)
ltLine(angle) == Msg("lt", <<Fmt(ToDegrees(angle))>>)
mvLine(dist, direction) ==
    Msg("mv", <<Fmt(dist), Fmt(ToDegrees(direction))>>)
smsLine(maxSpeed) == Msg("sms", <<Fmt(maxSpeed)>>)
smaLine(maxAccel) == Msg("sma", <<Fmt(maxAccel)>>)
smceLine(maxCorneringError) == Msg("smce", <<Fmt(maxCorneringError)>>)

\* write() returns -1, a short count, or the count asked for
WriteResults(count) == {IOError, count - 1, count}

WriteReturn_NonNegative(n, count) == IF n >= 0 THEN 0 ELSE IOError

\* write(fd,msg,p) == p ? 0 : -1
WriteReturn(n, count) == IF n = count THEN 0 ELSE IOError

\* arguments the caller passes
Lengths == {-1, 2}
Angles == {-2, 1, Pi}
CallerValues == {NoOutputs, [x |-> 5, y |-> 5, orientation |-> 2]}

\* the leading fields sscanf can convert from a line
Responses ==
    {<<>>, <<1>>, <<1, 2, 90>>, <<1, 2, -135, 3>>, <<0, 0, 180, 0>>}

MaxQueryReads == 4

\* a command: one line formatted, one write, the result compared
Written(name, args, m, count) ==
    /\ \E n \in WriteResults(count) :
          /\ c_writes' = <<[msg |-> m, count |-> count, n |-> n]>>
          /\ c_ret' = WriteReturn(n, count)
    /\ c_op' = [name |-> name, args |-> args]
    /\ c_rlcalls' = 0
    /\ c_pc' = "done"
    /\ c_prior' = c_out
    /\ c_resp' = <<>>

\* The runs issue their commands before their first query: a command
\* touches neither the line buffer nor the caller's outputs.
CanCommand == c_pc # "reading" /\ rl_pc = "idle"

setTargetOrientation ==
    /\ CanCommand
    /\ \E o \in Angles :
          Written("setTargetOrientation", <<o>>,
                  oLine(o),
                  MsgLen(oLine(o)))
    /\ UNCHANGED c_out
    /\ UNCHANGED <<rlVars, notC>>

setAbsoluteVelocity ==
    /\ CanCommand
    /\ \E vx \in Lengths, vy \in Lengths :
          Written("setAbsoluteVelocity", <<vx, vy>>,
                  avLine(vx, vy),
                  MsgLen(avLine(vx, vy)))
    /\ UNCHANGED c_out
    /\ UNCHANGED <<rlVars, notC>>

setRelativeVelocity ==
    /\ CanCommand
    /\ \E vx \in Lengths, vy \in Lengths, turnRate \in Angles :
          Written("setRelativeVelocity", <<vx, vy, turnRate>>,
                  vLine(vx, vy, turnRate),
                  MsgLen(vLine(vx, vy, turnRate)))
    /\ UNCHANGED c_out
    /\ UNCHANGED <<rlVars, notC>>

setPosition ==
    /\ CanCommand
    /\ \E x \in Lengths, y \in Lengths, o \in Angles :
          Written("setPosition", <<x, y, o>>,
                  pLine(x, y, o),
                  MsgLen(pLine(x, y, o)))
    /\ UNCHANGED c_out
    /\ UNCHANGED <<rlVars, notC>>

stop ==
    /\ CanCommand
    /\ Written("stop", <<>>, Msg("s", <<>>), LiteralLen("s"))
    /\ UNCHANGED c_out
    /\ UNCHANGED <<rlVars, notC>>

turnLeft ==
    /\ CanCommand
    /\ \E angle \in Angles :
          Written("turnLeft", <<angle>>,
                  ltLine(angle),
                  MsgLen(ltLine(angle)))
    /\ UNCHANGED c_out
    /\ UNCHANGED <<rlVars, notC>>

\* turnRight(angle) is turnLeft(-angle)
turnRight ==
    /\ CanCommand
    /\ \E angle \in Angles :
          Written("turnRight", <<angle>>,
                  ltLine(-angle),
                  MsgLen(ltLine(-angle)))
    /\ UNCHANGED c_out
    /\ UNCHANGED <<rlVars, notC>>

move ==
    /\ CanCommand
    /\ \E dist \in Lengths, direction \in Angles :
          Written("move", <<dist, direction>>,
                  mvLine(dist, direction),
                  MsgLen(mvLine(dist, direction)))
    /\ UNCHANGED c_out
    /\ UNCHANGED <<rlVars, notC>>

\* forward(dist) is move(dist, 0.0)
forward ==
    /\ CanCommand
    /\ \E dist \in Lengths :
          Written("forward", <<dist>>,
                  mvLine(dist, 0),
                  MsgLen(mvLine(dist, 0)))
    /\ UNCHANGED c_out
    /\ UNCHANGED <<rlVars, notC>>

\* back(dist) is forward(-dist)
back ==
    /\ CanCommand
    /\ \E dist \in Lengths :
          Written("back", <<dist>>,
                  mvLine(-dist, 0),
                  MsgLen(mvLine(-dist, 0)))
    /\ UNCHANGED c_out
    /\ UNCHANGED <<rlVars, notC>>

setMaxSpeed ==
    /\ CanCommand
    /\ \E maxSpeed \in Lengths :
          Written("setMaxSpeed", <<maxSpeed>>,
                  smsLine(maxSpeed),
                  MsgLen(smsLine(maxSpeed)))
    /\ UNCHANGED c_out
    /\ UNCHANGED <<rlVars, notC>>

setMaxAccel ==
    /\ CanCommand
    /\ \E maxAccel \in Lengths :
          Written("setMaxAccel", <<maxAccel>>,
                  smaLine(maxAccel),
                  MsgLen(smaLine(maxAccel)))
    /\ UNCHANGED c_out
    /\ UNCHANGED <<rlVars, notC>>

setMaxCorneringError ==
    /\ CanCommand
    /\ \E maxCorneringError \in Lengths :
          Written("setMaxCorneringError", <<maxCorneringError>>,
                  smceLine(maxCorneringError),
                  MsgLen(smceLine(maxCorneringError)))
    /\ UNCHANGED c_out
    /\ UNCHANGED <<rlVars, notC>>

\* a query up to its readLine: the request written, and on a write that is
\* not the whole request, -1 returned at once
Requested(name, verb) ==
    /\ c_op' = [name |-> name, args |-> <<>>]
    /\ c_resp' = <<>>
    /\ \E n \in WriteResults(LiteralLen(verb)) :
          /\ c_writes' = <<[msg |-> Msg(verb, <<>>),
                            count |-> LiteralLen(verb), n |-> n]>>
          /\ IF n # LiteralLen(verb)
             THEN /\ c_ret' = IOError
                  /\ c_pc' = "done"
                  /\ c_rlcalls' = 0
                  /\ UNCHANGED rlVars
             ELSE /\ c_ret' = 0
                  /\ c_pc' = "reading"
                  /\ c_rlcalls' = 1
                  /\ EnterReadLine

CanQuery == c_pc # "reading" /\ rl_pc \in {"idle", "ret"} /\ reads < MaxQueryReads

\* x, y and orientation are the caller's, with any values
estimatePosition ==
    /\ CanQuery
    /\ \E o \in CallerValues :
          /\ c_prior' = o
          /\ c_out' = o
    /\ Requested("estimatePosition", "q")
    /\ UNCHANGED notC

getQueueSize ==
    /\ CanQuery
    /\ Requested("getQueueSize", "q")
    /\ c_prior' = c_out
    /\ UNCHANGED c_out
    /\ UNCHANGED notC

getMaxSpeed ==
    /\ CanQuery
    /\ Requested("getMaxSpeed", "qms")
    /\ c_prior' = c_out
    /\ UNCHANGED c_out
    /\ UNCHANGED notC

getMaxAccel ==
    /\ CanQuery
    /\ Requested("getMaxAccel", "qma")
    /\ c_prior' = c_out
    /\ UNCHANGED c_out
    /\ UNCHANGED notC

getMaxCorneringError ==
    /\ CanQuery
    /\ Requested("getMaxCorneringError", "qmce")
    /\ c_prior' = c_out
    /\ UNCHANGED c_out
    /\ UNCHANGED notC

\* the query's readLine, a byte at a time
QueryRead ==
    /\ c_pc = "reading"
    /\ rl_pc = "loop"
    /\ reads < MaxQueryReads
    /\ \E b \in Bytes : ReadByte(b)
    /\ UNCHANGED <<cVars, notC>>

QueryReadFail ==
    /\ c_pc = "reading"
    /\ rl_pc = "loop"
    /\ reads < MaxQueryReads
    /\ ReadFails
    /\ UNCHANGED <<cVars, notC>>

\* sscanf(line, "%lf %lf %lf %d", &x, &y, &orientation, &qlen) and the
\* conversion of orientation that follows it
Scanned(out, f) ==
    [x |-> IF Len(f) >= 1 THEN f[1] ELSE out.x,
     y |-> IF Len(f) >= 2 THEN f[2] ELSE out.y,
     orientation |->
         ToRadians(IF Len(f) >= 3 THEN f[3] ELSE out.orientation)]

\* the value of a local that sscanf was to fill from field k
Filled(f, k) == IF Len(f) >= k THEN {f[k]} ELSE Indeterminate

ReadFailed_BelowError(r) == r < IOError

\* if( readLine() < 0) return -1;
ReadFailed(r) == r < 0

\* the query after its readLine
QueryReturn ==
    /\ c_pc = "reading"
    /\ rl_pc = "ret"
    /\ IF ReadFailed(rl_ret)
       THEN /\ c_ret' = IOError
            /\ UNCHANGED <<c_out, c_resp>>
       ELSE \E f \in IF rl_ret > 0 THEN Responses ELSE {<<>>} :
               /\ c_resp' = f
               /\ IF c_op.name = "estimatePosition"
                  THEN /\ c_out' = Scanned(c_out, f)
                       /\ c_ret' = 0
                  ELSE /\ UNCHANGED c_out
                       /\ c_ret' \in
                              IF c_op.name = "getQueueSize"
                              THEN Filled(f, 4)
                              ELSE Filled(f, 1)
    /\ c_pc' = "done"
    /\ UNCHANGED <<c_op, c_writes, c_rlcalls, c_prior>>
    /\ UNCHANGED <<rlVars, notC>>

NextClient ==
    \/ setTargetOrientation \/ setAbsoluteVelocity \/ setRelativeVelocity
    \/ setPosition \/ stop \/ turnLeft \/ turnRight \/ move \/ forward
    \/ back \/ setMaxSpeed \/ setMaxAccel \/ setMaxCorneringError
    \/ estimatePosition \/ getQueueSize \/ getMaxSpeed \/ getMaxAccel
    \/ getMaxCorneringError \/ QueryRead \/ QueryReadFail \/ QueryReturn

SpecClient == Init /\ [][NextClient]_vars

----------------------------------------------------------------------------
\* Nav2Remote::Nav2Remote, step by step

\* the port check and getaddrinfo
CtorBegin ==
    /\ k_pc = "new"
    /\ \E port \in Ports :
          IF port < MinPort \/ port > MaxPort
          THEN /\ k_pc' = "thrown"
               /\ k_error' = "Invalid port"
               /\ UNCHANGED <<k_cands, k_rp>>
          ELSE \/ /\ k_pc' = "thrown"
                  /\ k_error' = "Can't get address info"
                  /\ UNCHANGED <<k_cands, k_rp>>
               \/ \E l \in CandLists :
                     /\ k_cands' = l
                     /\ k_rp' = 1
                     /\ k_pc' = "loop"
                     /\ UNCHANGED k_error
    /\ UNCHANGED <<fd, k_open, k_tried>>
    /\ UNCHANGED notK

\* rp == NULL: the list is exhausted
CtorExhausted ==
    /\ k_pc = "loop"
    /\ k_rp > Len(k_cands)
    /\ k_pc' = "thrown"
    /\ k_error' = "Can't connect to robot"
    /\ UNCHANGED <<k_cands, k_rp, fd, k_open, k_tried>>
    /\ UNCHANGED notK

\* socket() returns -1: continue
CtorNoSocket ==
    /\ k_pc = "loop"
    /\ k_rp <= Len(k_cands)
    /\ k_cands[k_rp] = "nosocket"
    /\ fd' = NoFd
    /\ k_tried' = Append(k_tried, k_rp)
    /\ k_rp' = k_rp + 1
    /\ UNCHANGED <<k_pc, k_cands, k_open, k_error>>
    /\ UNCHANGED notK

\* socket() returns a descriptor, connect() fails: close(fd); fd = -1
CtorRefused ==
    /\ k_pc = "loop"
    /\ k_rp <= Len(k_cands)
    /\ k_cands[k_rp] = "refused"
    /\ k_open' = Closed(k_open \cup {k_rp}, k_rp)
    /\ fd' = NoFd
    /\ k_tried' = Append(k_tried, k_rp)
    /\ k_rp' = k_rp + 1
    /\ UNCHANGED <<k_pc, k_cands, k_error>>
    /\ UNCHANGED notK

\* connect() returns 0: break
CtorConnects ==
    /\ k_pc = "loop"
    /\ k_rp <= Len(k_cands)
    /\ k_cands[k_rp] = "connects"
    /\ k_open' = k_open \cup {k_rp}
    /\ fd' = k_rp
    /\ k_tried' = Append(k_tried, k_rp)
    /\ k_pc' = "connected"
    /\ UNCHANGED <<k_cands, k_rp, k_error>>
    /\ UNCHANGED notK

NextCtor ==
    CtorBegin \/ CtorExhausted \/ CtorNoSocket \/ CtorRefused \/ CtorConnects

SpecCtor == Init /\ [][NextCtor]_vars

----------------------------------------------------------------------------
\* The while loops of publishOdometry and setVelocity around connect, with
\* no count of the clients built, so that a run can go on without end.

MaxCycles == 3

\* What the device does while a callback runs: anything; "flaky", every
\* connection attempt succeeds and every call on the client fails;
\* "unreachable", every connection attempt fails.
Envs == {"any", "flaky", "unreachable"}

\* the results of a call on the installed client (estimatePosition or
\* setRelativeVelocity)
CallResults(env) == IF env = "flaky" THEN {IOError} ELSE {0, IOError}

\* whether new Nav2Remote(...) can return, and whether it can throw
CanConstruct(env) == env # "unreachable"
CanThrow(env) == env # "flaky"

TheClient == 1

\* the timer fires or a velocity command arrives
Dispatch ==
    /\ l_pc = "idle"
    /\ \E c \in {"po", "sv"}, env \in Envs :
          /\ l_caller' = c
          /\ l_env' = env
          /\ l_pc' = ReturnTo(c)
    /\ l_cycles' = 0
    /\ UNCHANGED <<l_remote, l_retry, l_attempts, l_rc>>
    /\ UNCHANGED notL

\* one evaluation of the loop condition; when it is false the callback
\* runs to its end
WhileTest ==
    /\ l_pc \in {"po_cond", "sv_cond"}
    /\ \E r \in IF l_remote = NoClient THEN {l_rc} ELSE CallResults(l_env) :
          /\ l_rc' = r
          /\ l_pc' = IF WhileCond(l_remote, r) THEN "connect" ELSE "idle"
    /\ UNCHANGED <<l_caller, l_env, l_remote, l_retry, l_attempts, l_cycles>>
    /\ UNCHANGED notL

\* connect up to its retry loop
ConnectEnter ==
    /\ l_pc = "connect"
    /\ l_remote' = NoClient
    /\ l_retry' = 0
    /\ l_attempts' = 0
    /\ l_cycles' = IF l_cycles < MaxCycles THEN l_cycles + 1 ELSE l_cycles
    /\ l_pc' = "attempt"
    /\ UNCHANGED <<l_caller, l_env, l_rc>>
    /\ UNCHANGED notL

\* one turn of the retry loop whose Nav2Remote constructor succeeds
AttemptSucceeds ==
    /\ l_pc = "attempt"
    /\ MoreAttempts(l_retry)
    /\ CanConstruct(l_env)
    /\ l_remote' = TheClient
    /\ l_attempts' = l_attempts + 1
    /\ l_pc' = ReturnTo(l_caller)
    /\ UNCHANGED <<l_caller, l_env, l_retry, l_cycles, l_rc>>
    /\ UNCHANGED notL

\* one turn of the retry loop whose Nav2Remote constructor throws
AttemptThrows ==
    /\ l_pc = "attempt"
    /\ MoreAttempts(l_retry)
    /\ CanThrow(l_env)
    /\ l_retry' = l_retry + 1
    /\ l_attempts' = l_attempts + 1
    /\ UNCHANGED <<l_pc, l_caller, l_env, l_remote, l_cycles, l_rc>>
    /\ UNCHANGED notL

\* the retry loop is over: connect throws and the process ends
ConnectGivesUp ==
    /\ l_pc = "attempt"
    /\ ~MoreAttempts(l_retry)
    /\ l_pc' = "fatal"
    /\ UNCHANGED <<l_caller, l_env, l_remote, l_retry, l_attempts, l_cycles,
                   l_rc>>
    /\ UNCHANGED notL

NextLoop ==
    \/ Dispatch \/ WhileTest \/ ConnectEnter \/ AttemptSucceeds
    \/ AttemptThrows \/ ConnectGivesUp

\* The one thread runs on whenever it can take a step, and the timer
\* keeps firing.
SpecLoop == Init /\ [][NextLoop]_vars /\ WF_vars(NextLoop)

----------------------------------------------------------------------------
\* The callbacks of the timer and of the subscriber under ros::spin, each
\* with its own position, and the traffic of the connection.
\*
\* t_log holds, for the connection of the installed client: "q" and "v" for
\* a request or a command written whole, "q!" and "v!" for a write that
\* failed, "resp" for a response line read, "eof" for a read that failed.

MaxConns == 2
MaxWire == 4

SpinFree_Threaded(other) == TRUE

\* ros::spin() serves the callback queue from the one thread that called
\* it: a callback is dispatched only when the other is not running
SpinFree(other) == other = "idle"

\* the outcomes of connect: a client on a new connection, or the throw
\* that ends the process
Connected ==
    /\ t_next <= MaxConns
    /\ t_remote' = t_next
    /\ t_next' = t_next + 1
    /\ t_log' = <<>>

\* Nav2Driver::Nav2Driver calls connect, then wires the timer and the
\* subscriber; main then spins
WireCtor ==
    /\ t_main = "ctor"
    /\ \/ Connected /\ t_main' = "spin"
       \/ t_main' = "fatal" /\ UNCHANGED <<t_remote, t_next, t_log>>
    /\ UNCHANGED <<t_po, t_sv>>
    /\ UNCHANGED notT

\* the timer's callback is dispatched
PoStart ==
    /\ t_main = "spin"
    /\ t_po = "idle"
    /\ SpinFree(t_sv)
    /\ t_po' = "cond"
    /\ UNCHANGED <<t_main, t_sv, t_remote, t_next, t_log>>
    /\ UNCHANGED notT

\* the loop condition up to estimatePosition's write of "q\n"
PoWrite ==
    /\ t_main = "spin"
    /\ t_po = "cond"
    /\ IF t_remote = NoClient
       THEN t_po' = "connect" /\ UNCHANGED t_log
       ELSE /\ Len(t_log) < MaxWire
            /\ \/ t_log' = Append(t_log, "q") /\ t_po' = "read"
               \/ t_log' = Append(t_log, "q!") /\ t_po' = "connect"
    /\ UNCHANGED <<t_main, t_sv, t_remote, t_next>>
    /\ UNCHANGED notT

\* estimatePosition's readLine
PoRead ==
    /\ t_main = "spin"
    /\ t_po = "read"
    /\ \/ t_log' = Append(t_log, "resp") /\ t_po' = "update"
       \/ t_log' = Append(t_log, "eof") /\ t_po' = "connect"
    /\ UNCHANGED <<t_main, t_sv, t_remote, t_next>>
    /\ UNCHANGED notT

\* the sample is integrated and published; the callback returns
PoPublish ==
    /\ t_main = "spin"
    /\ t_po = "update"
    /\ t_po' = "idle"
    /\ UNCHANGED <<t_main, t_sv, t_remote, t_next, t_log>>
    /\ UNCHANGED notT

\* connect called from publishOdometry's loop
PoConnect ==
    /\ t_main = "spin"
    /\ t_po = "connect"
    /\ \/ Connected /\ t_po' = "cond" /\ UNCHANGED t_main
       \/ /\ t_main' = "fatal"
          /\ t_remote' = NoClient
          /\ UNCHANGED <<t_po, t_next, t_log>>
    /\ UNCHANGED t_sv
    /\ UNCHANGED notT

\* the subscriber's callback is dispatched
SvStart ==
    /\ t_main = "spin"
    /\ t_sv = "idle"
    /\ SpinFree(t_po)
    /\ t_sv' = "cond"
    /\ UNCHANGED <<t_main, t_po, t_remote, t_next, t_log>>
    /\ UNCHANGED notT

\* the loop condition with setRelativeVelocity's write; on success the
\* callback returns
SvWrite ==
    /\ t_main = "spin"
    /\ t_sv = "cond"
    /\ IF t_remote = NoClient
       THEN t_sv' = "connect" /\ UNCHANGED t_log
       ELSE /\ Len(t_log) < MaxWire
            /\ \/ t_log' = Append(t_log, "v") /\ t_sv' = "idle"
               \/ t_log' = Append(t_log, "v!") /\ t_sv' = "connect"
    /\ UNCHANGED <<t_main, t_po, t_remote, t_next>>
    /\ UNCHANGED notT

\* connect called from setVelocity's loop
SvConnect ==
    /\ t_main = "spin"
    /\ t_sv = "connect"
    /\ \/ Connected /\ t_sv' = "cond" /\ UNCHANGED t_main
       \/ /\ t_main' = "fatal"
          /\ t_remote' = NoClient
          /\ UNCHANGED <<t_sv, t_next, t_log>>
    /\ UNCHANGED t_po
    /\ UNCHANGED notT

NextWire ==
    \/ WireCtor \/ PoStart \/ PoWrite \/ PoRead \/ PoPublish \/ PoConnect
    \/ SvStart \/ SvWrite \/ SvConnect

SpecWire == Init /\ [][NextWire]_vars

----------------------------------------------------------------------------
\* BaseOdometry::updateWithAbsolute on a fresh BaseOdometry

\* the thetas of [-pi, pi], and the samples that carry them
ThRange == (0 - Pi)..Pi
ThSamples == {Pose(px, 0, pth) : px \in {0, 1}, pth \in ThRange}

MaxFed == 3

FeedSample ==
    /\ Len(d_fed) < MaxFed
    /\ \E s \in ThSamples :
          /\ d_odom' = updateWithAbsolute(d_odom, s, Len(d_fed) + 1)
          /\ d_fed' = Append(d_fed, s)
    /\ UNCHANGED notD

NextDelta == FeedSample

SpecDelta == Init /\ [][NextDelta]_vars

----------------------------------------------------------------------------
\* Claims on the driver (Spec)

\* C1: after every reconnect, if the first sample of the new connection is
\* (0,0,0), the pose published for it equals the pose that was published
\* (accumulated pose + offset) just before the reconnect.
C1_ReconnectContinuity ==
    (preReset # <<>> /\ sinceReset = 1 /\ lastSample = Zero)
        => odom_pub_ = preReset[1]

\* C2: when updateWithAbsolute(sample) has returned, the stored previous
\* sample is the sample that was passed in.
C2_PrevIsSample ==
    sinceReset > 0 => base_odom_.prev_ = lastSample

\* C3: a client that reported an I/O error is torn down, its stream closed,
\* before any connection attempt is made, and every call of a wrapped
\* operation is issued on an open client that has reported no I/O error.
C3_RetryOnNewClient ==
    /\ pc = "attempt" => (remote_ = NoClient /\ errored \cap open = {})
    /\ (pc \in {"po_cond", "sv_cond"} /\ remote_ # NoClient)
           => (remote_ \notin errored /\ remote_ \in open)

C3_Witness ==
    /\ pc \in {"po_cond", "sv_cond"}
    /\ remote_ # NoClient
    /\ rc = IOError
    /\ errored # {}

\* C4: a connect round makes at most 5 attempts, makes no attempt after a
\* successful one, and after 5 failed attempts throws with no client
\* installed and no stream open.
C4_ConnectBudget ==
    /\ attempts <= 5
    /\ pc = "attempt" => attempts = retry
    /\ pc # "attempt" => attempts <= retry + 1
    /\ pc = "fatal" => (attempts = 5 /\ retry = 5 /\ remote_ = NoClient
                        /\ open = {})

C4_Witness ==
    pc = "fatal" /\ caller = "po" /\ attempts = 5

C6_NoIOErrorEscapes ==
    /\ ended \in {"none", "ok", "fatal"}
    /\ ended = "ok" => (pc = "idle" /\ rc = 0 /\ remote_ \notin errored)
    /\ ended = "fatal" => (pc = "fatal" /\ retry = 5)
    /\ pc = "po_update" => rc = 0
    /\ (pc = "idle" /\ calls > 0) => ended = "ok"
    /\ pc = "fatal" => ended = "fatal"

C6_Witness ==
    ended = "ok" /\ errored # {} /\ pc = "idle"

\* a reconnect of the driver: connect entered with a client installed
Reconnects == pc = "connect" /\ remote_ # NoClient

\* C17 as stated: a reconnect leaves the accumulated pose, the last
\* velocity, the last raw sample and the time of the last update as they
\* were.
C17_OnlyOffsetRewritten ==
    [][Reconnects =>
          /\ base_odom_'.pose_ = base_odom_.pose_
          /\ base_odom_'.vel_ = base_odom_.vel_
          /\ base_odom_'.prev_ = base_odom_.prev_
          /\ base_odom_'.last_time_ = base_odom_.last_time_]_vars

\* C17 as amended: a reconnect replaces the whole odometry state: the
\* accumulated pose, the last velocity and the last raw sample are zero
\* after it and the time of the last update is the time of the reconnect.
C17_ReconnectResets ==
    [][Reconnects =>
          /\ base_odom_'.pose_ = Zero
          /\ base_odom_'.vel_.d = Zero
          /\ base_odom_'.prev_ = Zero
          /\ base_odom_'.last_time_ = now]_vars

\* a reconnect has just reset an odometry that had moved and been updated
\* at an earlier time
C17_Witness ==
    /\ pc = "attempt" /\ attempts = 0 /\ caller = "po"
    /\ preReset # <<>> /\ preReset[1].th # 0
    /\ sinceReset = 0
    /\ base_odom_.pose_ = Zero /\ base_odom_.prev_ = Zero
    /\ base_odom_.last_time_ = now /\ now > 1

\* C18: the offset is applied only when the pose is put out: integrating a
\* sample leaves the offset as it was and adds the delta alone to the
\* accumulated pose, the offset changes at a reconnect and nowhere else, and
\* the pose published is the accumulated pose plus the offset, component by
\* component.
C18_OffsetAtOutputOnly ==
    [][/\ base_odom_'.offset_ # base_odom_.offset_ => Reconnects
       /\ pc = "po_update" =>
             /\ base_odom_'.offset_ = base_odom_.offset_
             /\ base_odom_'.pose_.x - base_odom_.pose_.x
                   = base_odom_'.vel_.d.x
             /\ base_odom_'.pose_.y - base_odom_.pose_.y
                   = base_odom_'.vel_.d.y
             /\ base_odom_'.pose_.th - base_odom_.pose_.th
                   = base_odom_'.vel_.d.th
             /\ base_odom_'.vel_.d = PoseMinus(data, base_odom_.prev_)
             /\ odom_pub_' =
                   [x |-> base_odom_'.pose_.x + base_odom_'.offset_.x,
                    y |-> base_odom_'.pose_.y + base_odom_'.offset_.y,
                    th |-> base_odom_'.pose_.th + base_odom_'.offset_.th]
       /\ odom_pub_' # odom_pub_ => pc = "po_update"]_vars

\* a pose is published from an odometry whose pose and offset both differ
\* from zero
C18_Witness ==
    /\ pc = "idle" /\ ended = "ok" /\ pubs = 1
    /\ base_odom_.offset_.x # 0 /\ base_odom_.offset_.th # 0
    /\ base_odom_.pose_.x # 0 /\ base_odom_.pose_.th # 0
    /\ odom_pub_.x = base_odom_.pose_.x + base_odom_.offset_.x

\* C19: a tick that completes has published exactly one odometry sample,
\* and the sample it integrated and published is the output of an
\* estimatePosition call that returned success on the client installed at
\* the time of publishing; what a failed query left in data is never
\* integrated, however many reconnects the tick went through.
C19_PublishesLiveSample ==
    [][/\ pc' = "po_update" =>
             /\ remote_' # NoClient
             /\ dataFrom' = remote_'
             /\ rc' = 0
             /\ pubs' = 0
       /\ pc = "po_update" =>
             /\ pc' = "idle" /\ ended' = "ok"
             /\ pubs' = 1
             /\ remote_' = remote_
             /\ lastSample' = data
             /\ base_odom_' = updateWithAbsolute(base_odom_, data, now)
       /\ pubs' # pubs => pc \in {"idle", "po_update"}
       /\ (pc \in {"po_cond", "connect", "attempt"} /\ pc' = "idle") =>
             caller = "ctor"]_vars

\* a tick completes after two clients failed it and a third answered
C19_Witness ==
    /\ pc = "idle" /\ ended = "ok" /\ pubs = 1
    /\ Cardinality(errored) >= 2
    /\ dataFrom = remote_ /\ remote_ \notin errored
    /\ lastSample # Zero

----------------------------------------------------------------------------
\* Claims on readLine (SpecRead)

\* the line readLine hands back: line[0 .. rl_ret-1]
Returned == [i \in 1..rl_ret |-> line[i - 1]]

\* the lines of a byte sequence that a newline has completed, in order
RECURSIVE CompletedLines(_, _)
CompletedLines(bs, cur) ==
    IF bs = <<>> THEN <<>>
    ELSE IF Head(bs) = "LF" THEN <<cur>> \o CompletedLines(Tail(bs), <<>>)
    ELSE CompletedLines(Tail(bs), Append(cur, Head(bs)))

WithoutCR(l) == SelectSeq(l, LAMBDA c : c # "CR")

StartsWithSentinel(l) == l # <<>> /\ l[1] \in {"|", "+"}

\* C7: readLine never returns a line that starts with '|' or '+'; every such
\* line is passed over within the call, which returns the first completed
\* line that does not start with one of them, or the I/O error when a read
\* fails before such a line is complete.
C7_ChatterDiscarded ==
    LET ls == CompletedLines(raw, <<>>)
        n == Len(ls)
    IN /\ (rl_pc = "loop" \/ (rl_pc = "ret" /\ rl_ret < 0))
             => \A i \in 1..n : StartsWithSentinel(WithoutCR(ls[i]))
       /\ (rl_pc = "ret" /\ rl_ret < 0) => rl_ret = -1
       /\ (rl_pc = "ret" /\ rl_ret >= 0)
             => /\ ~StartsWithSentinel(Returned)
                /\ n >= 1
                /\ raw[Len(raw)] = "LF"
                /\ \A i \in 1..(n - 1) : StartsWithSentinel(WithoutCR(ls[i]))
                /\ ~StartsWithSentinel(WithoutCR(ls[n]))

C7_Witness ==
    /\ rl_pc = "ret" /\ rl_ret = 1
    /\ raw = <<"|", "LF", "+", "LF", "a", "LF">>

\* C8: the line readLine returns holds no carriage return and no newline; it
\* is the bytes received between the previous newline of the call (or the
\* start of the call) and the terminating newline, with every carriage
\* return removed, and it is followed by the terminating 0.
C8_NoCarriageReturn ==
    (rl_pc = "ret" /\ rl_ret >= 0)
        => LET ls == CompletedLines(raw, <<>>)
           IN /\ \A i \in 1..rl_ret : Returned[i] \notin {"CR", "LF"}
              /\ Returned = WithoutCR(ls[Len(ls)])
              /\ line[rl_ret] = "NUL"

C8_Witness ==
    /\ rl_pc = "ret" /\ rl_ret = 1
    /\ raw = <<"|", "LF", "CR", "a", "CR", "LF">>

----------------------------------------------------------------------------
\* Claims on the line buffer (SpecLong)

\* C20: the capacity of the line buffer is always a multiple of 32 and never
\* decreases, over any sequence of readLine calls, and every byte readLine
\* stores goes to index pos with 0 <= pos and pos + 1 < capacity.
C20_BufferOnlyGrows ==
    [][/\ lineLen' >= lineLen
       /\ lineLen' % 32 = 0
       /\ Len(raw') = Len(raw) + 1 =>
             /\ stored' = pos
             /\ 0 <= stored'
             /\ stored' + 1 < lineLen'
             /\ line'[stored'] \in {raw'[Len(raw')], NUL}]_vars

\* a line that begins with a carriage return has outgrown the first
\* increment and has been returned
C20_Witness ==
    /\ rl_pc = "ret" /\ rl_ret > 32
    /\ lineLen = 64
    /\ stored = rl_ret
    /\ raw[1] = CR

----------------------------------------------------------------------------
\* Claims on wait (SpecWait)

\* C9: wait returns at the first poll that reports less than 1 and at no
\* other: every earlier poll reported 1 or more and was followed by one
\* sleep of 100 ms, so k such polls and then a poll reporting 0 make k+1
\* polls and k sleeps, and wait returns 0.
C9_WaitPolls ==
    LET n == Len(polls)
    IN /\ w_pc \in {"sleep", "done"} => n >= 1
       /\ w_pc = "sleep"
             => /\ \A i \in 1..n : polls[i].ret >= 1
                /\ sleeps = [i \in 1..(n - 1) |-> 100000]
       /\ w_pc = "poll"
             => /\ \A i \in 1..n : polls[i].ret >= 1
                /\ sleeps = [i \in 1..n |-> 100000]
       /\ w_pc = "done"
             => /\ \A i \in 1..(n - 1) : polls[i].ret >= 1
                /\ polls[n].ret < 1
                /\ sleeps = [i \in 1..(n - 1) |-> 100000]
                /\ w_ret = polls[n].ret
                /\ (polls[n].ret = 0 => w_ret = 0)

C9_Witness ==
    /\ w_pc = "done" /\ w_ret = 0
    /\ [i \in 1..Len(polls) |-> polls[i].ret] = <<3, 2, 1, 0>>
    /\ \A i \in 1..Len(polls) : polls[i].parsed
    /\ Len(sleeps) = 3

\* C10: wait returns -1 at the first poll that meets an I/O error, and it
\* returns only 0 or -1, a value other than 0 only after an I/O error.
C10_WaitReturnValue ==
    /\ (w_io /\ w_pc # "idle")
          => (w_pc = "done" /\ w_ret = -1 /\ polls[Len(polls)].io
              /\ Len(sleeps) = Len(polls) - 1)
    /\ w_pc = "done" => (w_ret \in {0, -1} /\ (w_ret # 0 => w_io))

----------------------------------------------------------------------------
\* Claims on the commands and queries (SpecClient)

\* C11: every angle crosses the boundary converted, the angle of
\* setTargetOrientation, setRelativeVelocity, setPosition, turnLeft and move
\* being sent as radians * 180/pi and the theta of estimatePosition returned
\* as degrees * pi/180, and every other argument is sent as given.
C11_AnglesConverted ==
    c_pc = "done" =>
       LET a == c_op.args
           w == c_writes[1].msg.args
       IN CASE c_op.name = "setTargetOrientation" ->
                   w = <<Fmt(ToDegrees(a[1]))>>
            [] c_op.name \in {"setRelativeVelocity", "setPosition"} ->
                   w = <<Fmt(a[1]), Fmt(a[2]), Fmt(ToDegrees(a[3]))>>
            [] c_op.name = "turnLeft" ->
                   w = <<Fmt(ToDegrees(a[1]))>>
            [] c_op.name = "move" ->
                   w = <<Fmt(a[1]), Fmt(ToDegrees(a[2]))>>
            [] c_op.name = "setAbsoluteVelocity" ->
                   w = <<Fmt(a[1]), Fmt(a[2])>>
            [] c_op.name \in {"setMaxSpeed", "setMaxAccel",
                              "setMaxCorneringError"} ->
                   w = <<Fmt(a[1])>>
            [] c_op.name = "estimatePosition" /\ Len(c_resp) >= 3 ->
                   /\ c_out.x = c_resp[1]
                   /\ c_out.y = c_resp[2]
                   /\ c_out.orientation = ToRadians(c_resp[3])
            [] OTHER -> TRUE

WriteOps ==
    {"setTargetOrientation", "setAbsoluteVelocity", "setRelativeVelocity",
     "setPosition", "stop", "turnLeft", "turnRight", "move", "forward",
     "back", "setMaxSpeed", "setMaxAccel", "setMaxCorneringError"}

\* C13: a command makes exactly one write, of its whole formatted line, and
\* returns -1 when the bytes written differ from the length of the line and
\* 0 otherwise.
C13_OneWholeWrite ==
    (c_pc = "done" /\ c_op.name \in WriteOps) =>
       /\ Len(c_writes) = 1
       /\ c_writes[1].count = MsgLen(c_writes[1].msg)
       /\ c_ret = IF c_writes[1].n = MsgLen(c_writes[1].msg)
                  THEN 0 ELSE IOError

\* a short write of a three-argument command, answered by -1
C13_Witness ==
    /\ c_pc = "done"
    /\ c_op.name = "setRelativeVelocity"
    /\ Len(c_writes) = 1
    /\ c_writes[1].n = c_writes[1].count - 1
    /\ c_ret = IOError

QueryVerb ==
    [estimatePosition |-> "q", getQueueSize |-> "q", getMaxSpeed |-> "qms",
     getMaxAccel |-> "qma", getMaxCorneringError |-> "qmce"]

\* C14: a query writes its request line once, whole, then calls readLine
\* exactly once; when the write of the request fails it returns -1 and calls
\* readLine not at all.
C14_RequestThenOneRead ==
    c_op.name \in DOMAIN QueryVerb =>
       /\ Len(c_writes) = 1
       /\ c_writes[1].msg = Msg(QueryVerb[c_op.name], <<>>)
       /\ c_writes[1].count = MsgLen(c_writes[1].msg)
       /\ c_rlcalls = IF c_writes[1].n = c_writes[1].count THEN 1 ELSE 0
       /\ c_writes[1].n # c_writes[1].count =>
             c_pc = "done" /\ c_ret = IOError
       /\ c_pc = "reading" => c_rlcalls = 1

\* the longest request, answered by a line
C14_Witness ==
    /\ c_pc = "done"
    /\ c_op.name = "getMaxCorneringError"
    /\ c_rlcalls = 1
    /\ c_resp = <<1>>
    /\ c_ret = 1

\* C15: when the readLine of a query fails, at whatever point of the line,
\* the query returns -1, and estimatePosition leaves x, y and orientation
\* as the caller passed them.
C15_ReadFailureReturns ==
    (c_pc = "done" /\ c_rlcalls = 1 /\ rl_ret = IOError) =>
       c_ret = IOError /\ c_out = c_prior

\* the read fails in mid-line after a discarded line of chatter
C15_Witness ==
    /\ c_pc = "done"
    /\ c_op.name = "estimatePosition"
    /\ raw = <<"|", LF, "a">>
    /\ rl_ret = IOError
    /\ c_ret = IOError
    /\ c_out = [x |-> 5, y |-> 5, orientation |-> 2]

----------------------------------------------------------------------------
\* Claims on the constructor of the client (SpecCtor)

\* C16: construction tries the addresses in the order of the list, stops at
\* the first that connects and tries none after it; when no address
\* connects, construction fails with a connection error; and when it has
\* failed, no descriptor opened during the attempt is left open.
C16_FirstThatConnects ==
    /\ \A i \in 1..Len(k_tried) : k_tried[i] = i
    /\ \A i \in 1..Len(k_tried) :
          i < Len(k_tried) => k_cands[i] # "connects"
    /\ k_pc = "connected" =>
          /\ k_cands[fd] = "connects"
          /\ k_tried[Len(k_tried)] = fd
          /\ k_open = {fd}
    /\ k_pc = "thrown" => k_open = {} /\ fd = NoFd
    /\ (k_pc = "thrown" /\ k_cands # <<>>) =>
          /\ k_error = "Can't connect to robot"
          /\ Len(k_tried) = Len(k_cands)
          /\ \A i \in 1..Len(k_cands) : k_cands[i] # "connects"

\* every address failed, two of them after socket() gave a descriptor
C16_Witness ==
    /\ k_pc = "thrown"
    /\ k_cands = <<"refused", "nosocket", "refused">>
    /\ k_tried = <<1, 2, 3>>
    /\ k_open = {}

----------------------------------------------------------------------------
\* Claims on the retry loop (SpecLoop)

\* a callback of the timer or of the subscriber is running
InCall == l_caller \in {"po", "sv"} /\ l_pc \notin {"idle", "fatal"}

\* C21: the loop of a wrapped call has no cap on its cycles.  The call ends
\* only by a successful call on an installed client or by a connect round
\* that made its 5 attempts in vain; where every connect round succeeds and
\* every call fails it never returns and comes back to connect for ever;
\* where every connection attempt fails, a call that enters connect ends in
\* the fatal error after exactly 5 attempts.
C21_RetryUncapped ==
    /\ [][(InCall /\ ~InCall') =>
             \/ l_pc' = "idle" /\ l_rc' = 0 /\ l_remote # NoClient
             \/ /\ l_pc' = "fatal"
                /\ l_attempts = RetryBudget
                /\ l_remote = NoClient]_vars
    /\ [][(InCall /\ l_env = "flaky") => InCall']_vars
    /\ (InCall /\ l_env = "flaky") ~> (l_pc = "connect")
    /\ (InCall /\ l_env = "flaky") ~> (l_cycles = MaxCycles)
    /\ (InCall /\ l_env = "unreachable" /\ l_pc = "connect")
          ~> (l_pc = "fatal" /\ l_attempts = RetryBudget)

\* a call has gone through as many connect rounds as are counted and is
\* about to fail again
C21_Witness ==
    /\ InCall /\ l_env = "flaky"
    /\ l_pc = "po_cond" /\ l_remote # NoClient
    /\ l_cycles = MaxCycles
    /\ l_rc = IOError

----------------------------------------------------------------------------
\* Claims on the callbacks under ros::spin (SpecWire)

\* C22: requests are never pipelined.  On a connection, the write of a
\* query's request is followed by the read of that query before anything
\* else is written; the only request without its read is the one whose
\* read is in flight; and while a read is in flight no other callback runs,
\* so no reconnect starts.
C22_NoPipelining ==
    /\ \A i \in 1..Len(t_log) :
          t_log[i] = "q" =>
             IF i < Len(t_log)
             THEN t_log[i + 1] \in {"resp", "eof"}
             ELSE t_po = "read"
    /\ t_po = "read" =>
          /\ t_sv = "idle"
          /\ t_remote # NoClient
          /\ t_log # <<>> /\ t_log[Len(t_log)] = "q"
    /\ t_po # "idle" => t_sv = "idle"

\* a command went out between two complete round trips of one connection
C22_Witness ==
    /\ t_log = <<"q", "resp", "v", "q">>
    /\ t_po = "read"

----------------------------------------------------------------------------
\* Claims on updateWithAbsolute (SpecDelta)

\* C12: for two consecutive samples with thetas in [-pi, pi], the
\* delta-theta updateWithAbsolute computes for the second has magnitude at
\* most pi.
C12_DeltaWithinPi ==
    Len(d_fed) = 2 => Abs(d_odom.vel_.d.th) <= Pi

\* thetas so small that no difference of the run comes near pi
NoWraparound == \A i \in 1..Len(d_fed) : Abs(d_fed[i].th) <= 1

\* C23: on one connection and without wraparound, after the samples
\* s1..sn have been fed to updateWithAbsolute from a zero state, the
\* accumulated pose is the last sample sn.
C23_PoseIsLastSample ==
    (Len(d_fed) >= 1 /\ NoWraparound) =>
       d_odom.pose_ = d_fed[Len(d_fed)]

----------------------------------------------------------------------------
\* Claims on the streams of the driver (Spec)

\* the only stream open is the installed client's, and none is open while
\* connect is in its retry loop
OneStream ==
    /\ Cardinality(open) <= 1
    /\ open \subseteq ({remote_} \ {NoClient})
    /\ pc = "attempt" => (remote_ = NoClient /\ open = {})

\* a step that takes a client out of remote_ closes that client's stream
DestroyedCloses ==
    (remote_ # NoClient /\ remote_' # remote_) => remote_ \notin open'

\* an attempt that installs no client leaves no stream open
FailedLeavesNone ==
    (attempts' = attempts + 1 /\ remote_' = NoClient) => open' = {}

\* C24: the driver holds at most one open stream at every moment: on a
\* reconnect the old client's stream is closed before the first attempt to
\* open the replacement, every destroyed client closes its stream, and a
\* client whose construction failed leaves no stream open.
C24_AtMostOneStream ==
    /\ []OneStream
    /\ [][DestroyedCloses /\ FailedLeavesNone]_vars

\* the second client is installed, after a reconnect whose first attempt
\* failed
C24_Witness ==
    /\ nextId = 3 /\ remote_ = 2 /\ open = {2}
    /\ attempts = 2 /\ errored = {1}

====
